---- MODULE Spec2Model ----
(***************************************************************************)
(* A model of fb_post.py: the page registry parser, the post loader, the   *)
(* FacebookPoster network operations and the run state machine of main().  *)
(*                                                                         *)
(* Strings that the code inspects character by character (configuration    *)
(* lines) are sequences of one-character strings.  The Graph API, the file *)
(* system and the process environment are inputs: what they answer is drawn *)
(* from small sets when the code reads them.                               *)
(***************************************************************************)
EXTENDS Integers, Sequences, FiniteSets, TLC

\* ------------------------------------------------------------------ bounds

\* Longest configuration file, in characters, that the registry parser is run on.
MaxFileLen == 6
\* Most lines of the configuration file of a whole run.
MaxLines == 2
\* Most files in the posts directory.
MaxFiles == 2
\* Most IMAGE: directives in the content files of the posts directory, in all.
MaxImages == 2

\* ------------------------------------------------------------ small values

\* Python's None, where the code returns it in place of a string.
None == "None"

\* The characters a configuration file is made of.
Chars == {"a", "|", "$", "#", " ", "\n"}

RECURSIVE SeqsUpTo(_, _)
\* Every sequence over S of length at most n.
SeqsUpTo(S, n) ==
    IF n = 0 THEN {<<>>}
    ELSE LET shorter == SeqsUpTo(S, n - 1)
         IN shorter \cup {Append(s, x) : s \in {t \in shorter : Len(t) = n - 1}, x \in S}

\* ------------------------------------------------------- string operations

Whitespace == {" ", "\n"}

RECURSIVE lstrip(_)
lstrip(s) == IF s # <<>> /\ Head(s) \in Whitespace THEN lstrip(Tail(s)) ELSE s

RECURSIVE rstrip(_)
rstrip(s) ==
    IF s # <<>> /\ s[Len(s)] \in Whitespace
    THEN rstrip(SubSeq(s, 1, Len(s) - 1)) ELSE s

\* str.strip(): whitespace removed at both ends.
strip(s) == rstrip(lstrip(s))

\* str.startswith(c) for a one-character prefix.
startswith(s, c) == s # <<>> /\ Head(s) = c

RECURSIVE split(_, _)
\* str.split(sep): the fields between the separators, always at least one.
split(s, sep) ==
    IF \A n \in 1..Len(s) : s[n] # sep THEN <<s>>
    ELSE LET p == CHOOSE n \in 1..Len(s) :
                      s[n] = sep /\ \A m \in 1..(n - 1) : s[m] # sep
         IN <<SubSeq(s, 1, p - 1)>> \o split(SubSeq(s, p + 1, Len(s)), sep)

\* os.environ.get(name, ''): the value, or the empty string when unset. The
\* environment is a set of pairs <<name, value>>, one for each variable set.
environ_get(env, name) ==
    IF \E p \in env : p[1] = name THEN (CHOOSE p \in env : p[1] = name)[2] ELSE <<>>

\* ------------------------------------------------------------ Page registry

\* What one configuration line contributes: <<target>> or nothing.
load_line(raw, env) ==
    LET line == strip(raw)
        parts == split(line, "|")
        page_id == strip(parts[1])
        field == strip(parts[2])
        name == IF Len(parts) > 2 THEN strip(parts[3])
                ELSE <<"P", "a", "g", "e", "_">> \o page_id
        placeholder == startswith(field, "$")
        token == IF placeholder THEN environ_get(env, Tail(field)) ELSE field
    IN IF line = <<>> \/ startswith(line, "#") THEN <<>>
       ELSE IF Len(parts) < 2 THEN <<>>
       ELSE IF placeholder /\ token = <<>> THEN <<>>
       ELSE <<[page_id |-> page_id, token |-> token, name |-> name]>>

RECURSIVE load_lines(_, _)
load_lines(lines, env) ==
    IF lines = <<>> THEN <<>>
    ELSE load_line(Head(lines), env) \o load_lines(Tail(lines), env)

\* load_facebook_pages(config_file): no file, no targets; else the targets of
\* the file's lines.
load_facebook_pages(file, env) ==
    IF ~file.exists THEN <<>> ELSE load_lines(split(file.text, "\n"), env)

\* --------------------------------------------------------------- Post loader

ImageNames == {"x.jpg", "y.jpg"}

\* The lines of a content file: an IMAGE: directive or a line of text.
ContentLines == [kind : {"image"}, name : ImageNames] \cup {[kind |-> "text", name |-> ""]}

\* The contents a file may hold: at most n directives and one text line.
FileContents(n) ==
    {c \in SeqsUpTo(ContentLines, n + 1) :
        /\ Len(SelectSeq(c, LAMBDA l : l.kind = "image")) <= n
        /\ Len(SelectSeq(c, LAMBDA l : l.kind = "text")) <= 1}

RECURSIVE Directives(_)
\* The number of directives of the loaded posts.
Directives(loaded_posts) ==
    IF loaded_posts = <<>> THEN 0
    ELSE Len(Head(loaded_posts).images) + Directives(Tail(loaded_posts))

\* The files the posts directory may hold: file n is n.docx (odd n) or n.txt.
PostFiles == {[name |-> n, ext |-> IF n % 2 = 1 THEN "docx" ELSE "txt"] : n \in 1..MaxFiles}

RECURSIVE SetToSeq(_)
\* glob.glob: the matching files, in some order.
SetToSeq(S) ==
    IF S = {} THEN <<>>
    ELSE LET x == CHOOSE y \in S : \A z \in S : y.name >= z.name
         IN <<x>> \o SetToSeq(S \ {x})

RECURSIVE insert(_, _)
insert(x, sorted) ==
    IF sorted = <<>> THEN <<x>>
    ELSE IF x.name <= Head(sorted).name THEN <<x>> \o sorted
    ELSE <<Head(sorted)>> \o insert(x, Tail(sorted))

RECURSIVE sort(_)
\* list.sort(): ascending by file name.
sort(files) == IF files = <<>> THEN <<>> ELSE insert(Head(files), sort(Tail(files)))

\* A variant of get_all_post_files without the final sort.
get_all_post_files_unsorted(dir, docx_support) ==
    SetToSeq({f \in dir : f.ext = "txt"})
        \o (IF docx_support THEN SetToSeq({f \in dir : f.ext = "docx"}) ELSE <<>>)

\* get_all_post_files(posts_dir): *.txt, then *.docx when supported, sorted.
get_all_post_files(dir, docx_support) ==
    LET txt_files == SetToSeq({f \in dir : f.ext = "txt"})
        docx_files == SetToSeq({f \in dir : f.ext = "docx"})
    IN sort(txt_files \o (IF docx_support THEN docx_files ELSE <<>>))

\* parse_post_content(content): the directives' names, and the remaining lines.
parse_post_content(content) ==
    [text |-> SelectSeq(content, LAMBDA l : l.kind # "image"),
     images |-> [n \in 1..Len(SelectSeq(content, LAMBDA l : l.kind = "image")) |->
                    SelectSeq(content, LAMBDA l : l.kind = "image")[n].name]]

\* What reading a file returned: its lines, or None after a read error.
Content(lines) == [none |-> FALSE, lines |-> lines]
NoContent == [none |-> TRUE, lines |-> <<>>]

\* load_post_from_file(filepath), given what reading the file returned:
\* <<post>> or nothing.
load_post_from_file(file, content) ==
    IF file.ext \notin {"txt", "docx"} THEN <<>>
    ELSE IF content.none \/ content.lines = <<>> THEN <<>>
    ELSE LET parsed == parse_post_content(content.lines)
         IN IF parsed.text = <<>> THEN <<>>
            ELSE <<[filename |-> file.name, text |-> parsed.text,
                    images |-> parsed.images]>>

\* ---------------------------------------------------------------- exceptions

\* What a blocking call may raise: a transport error or timeout (an Exception)
\* or the user's interrupt (a BaseException).
Raised == {"Timeout", "KeyboardInterrupt"}

\* A variant handler, a bare `except:`, which catches everything.
except_BaseException(exc) == TRUE

\* A variant handler, `except ValueError`, which lets transport errors through.
except_ValueError(exc) == exc = "ValueError"

\* `except Exception`: catches every exception class but the BaseException-only
\* ones.
except_Exception(exc) == exc \notin {"KeyboardInterrupt", "SystemExit"}

\* The handlers of the __main__ block: the exit code for an exception that
\* reaches it.
top_level_exit(exc) == IF exc = "KeyboardInterrupt" THEN 0 ELSE 1

\* ------------------------------------------------------------ HTTP responses

MediaIds == {"m1", "m2"}

NoResponse == [exc |-> "", status |-> 0, kind |-> "none", id |-> ""]

Raise(e) == [exc |-> e, status |-> 0, kind |-> "none", id |-> ""]

\* The metadata read: any status, and a body that is the page object, an error
\* object, or not JSON.
ConnOutcomes ==
    {Raise(e) : e \in Raised}
    \cup [exc : {""}, status : {200, 400}, kind : {"page", "error", "nojson"}, id : {""}]

\* The photo upload: a body with an id, an error object, another object, or not
\* JSON (the code does not read the status).
UploadOutcomes ==
    {Raise(e) : e \in Raised}
    \cup [exc : {""}, status : {200}, kind : {"id"}, id : MediaIds]
    \cup [exc : {""}, status : {400}, kind : {"error", "other", "nojson"}, id : {""}]

\* The feed publish: the same shapes, the id being the new post's.
FeedOutcomes ==
    {Raise(e) : e \in Raised}
    \cup [exc : {""}, status : {200}, kind : {"id"}, id : {"p1"}]
    \cup [exc : {""}, status : {400}, kind : {"error", "other", "nojson"}, id : {""}]

\* ------------------------------------------------------------ FacebookPoster

\* test_connection(), given the response: True only for a 200 whose body parses.
test_connection(r) == r.status = 200 /\ r.kind # "nojson"

\* upload_photo(), given the response: the id of the body, else None.
upload_photo(r) == IF r.kind = "id" THEN r.id ELSE None

\* `if photo_id:` the truth value of what upload_photo returned.
truthy(photo_id) == photo_id # None /\ photo_id # ""

\* A variant of collect that puts the new id first.
collect_front(ids, photo_id) == IF photo_id # None THEN <<photo_id>> \o ids ELSE ids

\* post(): the ids collected so far and one more upload's result.
collect(ids, photo_id) == IF truthy(photo_id) THEN Append(ids, photo_id) ELSE ids

\* post_with_photos(): the attached_media list.
post_with_photos(message, ids) ==
    [kind |-> "with_photos", message |-> message,
     attached_media |-> [n \in 1..Len(ids) |-> [media_fbid |-> ids[n]]]]

\* post_text_only(): the message alone.
post_text_only(message) ==
    [kind |-> "text_only", message |-> message, attached_media |-> <<>>]

\* post(): which feed request is made.
feed_request(message, ids) ==
    IF ids # <<>> THEN post_with_photos(message, ids) ELSE post_text_only(message)

\* post(): 'id' in result.
post_success(r) == r.kind = "id"

\* ----------------------------------------------------------------- the state

VARIABLES
    stage,          \* the stage of main() the process is in, or exited from
    pc,             \* the position inside Publishing
    exit_code,      \* -1 while the process runs, then its exit code
    posts_dir,      \* whether the posts directory exists
    images_dir,     \* whether the images directory exists
    config,         \* config.txt: whether it exists, and its text
    environ,        \* the process environment
    pages,          \* load_facebook_pages' result
    checked,        \* how many entries of pages the connectivity loop has done
    valid_pages,    \* the entries (indices into pages) whose check succeeded
    post_files,     \* get_all_post_files' result
    loaded,         \* how many entries of post_files the load loop has done
    posts,          \* the loaded posts
    i, j, k,        \* the current post, target and image path
    image_paths,    \* the current post's resolved image paths
    photo_ids,      \* post(): the media ids collected for the current pair
    total_success,
    total_failed,
    \* what the run has done, for the properties
    interrupted,    \* a KeyboardInterrupt was raised
    response,       \* the outcome of the network call of the latest step
    conn_log,       \* the entries connectivity requests were made for, in order
    upload_log,     \* the current pair's upload_photo calls
    pub_log,        \* the pairs <<post, target>> a feed request was made for
    request,        \* the feed request of the latest step
    missing         \* the current post's references found missing

vars == <<stage, pc, exit_code, posts_dir, images_dir, config, environ, pages,
          checked, valid_pages, post_files, loaded, posts, i, j, k, image_paths,
          photo_ids, total_success, total_failed, interrupted, response,
          conn_log, upload_log, pub_log, request, missing>>

env_vars == <<posts_dir, config, environ>>
registry_vars == <<pages, checked, valid_pages>>
loader_vars == <<post_files, loaded, posts>>
publish_vars == <<i, j, k, image_paths, photo_ids, total_success, total_failed,
                  upload_log, pub_log, missing>>

NoPublish == [kind |-> "none", message |-> <<>>, attached_media |-> <<>>]

\* The state of a process at the given stage before it has done anything.
Fresh(st) ==
    /\ stage = st /\ pc = "-" /\ exit_code = -1
    /\ pages = <<>> /\ checked = 0 /\ valid_pages = <<>>
    /\ post_files = <<>> /\ loaded = 0 /\ posts = <<>>
    /\ i = 0 /\ j = 0 /\ k = 0 /\ image_paths = <<>> /\ photo_ids = <<>>
    /\ total_success = 0 /\ total_failed = 0
    /\ interrupted = FALSE /\ response = NoResponse
    /\ conn_log = <<>> /\ upload_log = <<>> /\ pub_log = <<>>
    /\ request = NoPublish /\ missing = {}

\* A registry line that resolves to a target.
SampleLine == <<"a", "|", "a">>

RECURSIVE SampleConfig(_)
\* A configuration file of n such lines.
SampleConfig(n) ==
    IF n = 0 THEN <<>> ELSE SampleLine \o <<"\n">> \o SampleConfig(n - 1)

\* The environments: the variable a unset, set, or set to the empty string.
Environs == {{}, {<<(<<"a">>), <<"a">>>>}, {<<(<<"a">>), <<>>>>}}

Init ==
    /\ Fresh("ValidatingDirs")
    /\ posts_dir \in BOOLEAN
    /\ images_dir \in BOOLEAN
    /\ config \in {[exists |-> FALSE, text |-> <<>>]}
                  \cup {[exists |-> TRUE, text |-> SampleConfig(n)] : n \in 0..MaxLines}
    /\ environ = {}

\* The registry parser alone: main() at its call of load_facebook_pages, on any
\* configuration file of at most MaxFileLen characters.
InitRegistry ==
    /\ Fresh("LoadingRegistry")
    /\ posts_dir = TRUE
    /\ images_dir = TRUE
    /\ config \in [exists : {TRUE}, text : SeqsUpTo(Chars, MaxFileLen)]
    /\ environ \in Environs

\* ---------------------------------------------------------------- the steps

\* A step that makes no network call, and one that makes no feed request.
NoCall == response' = NoResponse /\ request' = NoPublish
NoFeed == request' = NoPublish

\* sys.exit(code), or an exception reaching the __main__ block.
Exit(code) == exit_code' = code

\* A variant of the fatal test that never fires.
fatal_ignored(list) == FALSE

\* main(): `if not pages`, `if not valid_pages`, `if not post_files`,
\* `if not posts`: the fatal test on a list.
fatal(list) == list = <<>>

\* A variant of the loop that checks an entry again after a failed check.
after_check_retry(n, ok) == IF ok THEN n + 1 ELSE n

\* main(): the connectivity loop goes to the next entry whatever the check
\* returned.
after_check(n, ok) == n + 1

\* A variant that keeps every reference, missing or not.
resolve_images_all(images, present) == images

\* main(): the paths of the references whose file exists.
resolve_images(images, present) == SelectSeq(images, LAMBDA f : f \in present)

\* A variant of the exit code that ignores the failures.
summary_exit_code_zero(failed) == 0

\* main(): the exit code after the summary.
summary_exit_code(failed) == IF failed > 0 THEN 1 ELSE 0

\* An exception that no handler on the way catches.
Propagate(exc) ==
    /\ Exit(top_level_exit(exc))
    /\ interrupted' = (interrupted \/ exc = "KeyboardInterrupt")

\* main(): the directory checks.
ValidateDirs ==
    /\ stage = "ValidatingDirs" /\ exit_code = -1
    /\ IF ~posts_dir
       THEN Exit(1) /\ UNCHANGED <<stage, images_dir>>
       ELSE images_dir' = TRUE /\ stage' = "LoadingRegistry" /\ UNCHANGED exit_code
    /\ UNCHANGED <<pc, env_vars, registry_vars, loader_vars, publish_vars,
                   interrupted, conn_log>>
    /\ NoCall

\* main(): load the registry; no target is fatal.
LoadRegistry ==
    /\ stage = "LoadingRegistry" /\ exit_code = -1
    /\ pages' = load_facebook_pages(config, environ)
    /\ IF fatal(pages')
       THEN Exit(1) /\ UNCHANGED stage
       ELSE stage' = "CheckingConnectivity" /\ UNCHANGED exit_code
    /\ UNCHANGED <<pc, env_vars, images_dir, checked, valid_pages, loader_vars,
                   publish_vars, interrupted, conn_log>>
    /\ NoCall

\* main(): one turn of the connectivity loop, a single metadata read.
TestConnection ==
    /\ stage = "CheckingConnectivity" /\ exit_code = -1
    /\ checked < Len(pages)
    /\ \E r \in ConnOutcomes :
        /\ response' = r
        /\ conn_log' = Append(conn_log, checked + 1)
        /\ IF r.exc # "" /\ ~except_Exception(r.exc)
           THEN Propagate(r.exc) /\ UNCHANGED <<checked, valid_pages>>
           ELSE /\ checked' = after_check(checked, r.exc = "" /\ test_connection(r))
                /\ valid_pages' = IF r.exc = "" /\ test_connection(r)
                                  THEN Append(valid_pages, checked + 1)
                                  ELSE valid_pages
                /\ interrupted' = (interrupted \/ r.exc = "KeyboardInterrupt")
                /\ UNCHANGED exit_code
    /\ NoFeed
    /\ UNCHANGED <<stage, pc, env_vars, images_dir, pages, loader_vars, publish_vars>>

\* main(): after the loop; no usable target is fatal.
ConnectivityChecked ==
    /\ stage = "CheckingConnectivity" /\ exit_code = -1
    /\ checked = Len(pages)
    /\ IF fatal(valid_pages)
       THEN Exit(1) /\ UNCHANGED stage
       ELSE stage' = "LoadingPosts" /\ UNCHANGED exit_code
    /\ UNCHANGED <<pc, env_vars, images_dir, registry_vars, loader_vars, publish_vars,
                   interrupted, conn_log>>
    /\ NoCall

\* main(): list the posts directory; no file is fatal.
GetPostFiles ==
    /\ stage = "LoadingPosts" /\ exit_code = -1 /\ pc = "-"
    /\ \E dir \in SUBSET PostFiles, docx_support \in BOOLEAN :
        post_files' = get_all_post_files(dir, docx_support)
    /\ IF fatal(post_files')
       THEN Exit(1) /\ UNCHANGED pc
       ELSE pc' = "load" /\ UNCHANGED exit_code
    /\ UNCHANGED <<stage, env_vars, images_dir, registry_vars, loaded, posts,
                   publish_vars, interrupted, conn_log>>
    /\ NoCall

\* main(): one turn of the load loop. Reading the file returns its content, or
\* raises; read_text_file and read_docx_file turn an Exception into None.
LoadPost ==
    /\ stage = "LoadingPosts" /\ exit_code = -1 /\ pc = "load"
    /\ loaded < Len(post_files)
    /\ \E read \in [exc : {""}, lines : FileContents(MaxImages - Directives(posts))]
                    \cup [exc : {"OSError", "KeyboardInterrupt"}, lines : {<<>>}] :
        IF read.exc # "" /\ ~except_Exception(read.exc)
        THEN Propagate(read.exc) /\ UNCHANGED <<loaded, posts>>
        ELSE /\ loaded' = loaded + 1
             /\ posts' = posts \o load_post_from_file(
                             post_files[loaded + 1],
                             IF read.exc # "" THEN NoContent ELSE Content(read.lines))
             /\ interrupted' = (interrupted \/ read.exc = "KeyboardInterrupt")
             /\ UNCHANGED exit_code
    /\ NoCall
    /\ UNCHANGED <<stage, pc, env_vars, images_dir, registry_vars, post_files,
                   publish_vars, conn_log>>

\* main(): after the load loop; no valid post is fatal.
PostsLoaded ==
    /\ stage = "LoadingPosts" /\ exit_code = -1 /\ pc = "load"
    /\ loaded = Len(post_files)
    /\ IF fatal(posts)
       THEN Exit(1) /\ UNCHANGED <<stage, pc, i>>
       ELSE stage' = "Publishing" /\ pc' = "prepare" /\ i' = 1 /\ UNCHANGED exit_code
    /\ UNCHANGED <<env_vars, images_dir, registry_vars, loader_vars, j, k,
                   image_paths, photo_ids, total_success, total_failed, upload_log,
                   pub_log, missing, interrupted, conn_log>>
    /\ NoCall

\* post(): where it starts, given the paths it got.
post_entry(paths) == IF paths # <<>> THEN "upload" ELSE "feed"

\* main(): resolve post i's references against the images directory, whose
\* files are those of `present`.
PreparePaths ==
    /\ stage = "Publishing" /\ exit_code = -1 /\ pc = "prepare"
    /\ \E present \in SUBSET ImageNames :
        /\ image_paths' = resolve_images(posts[i].images, present)
        /\ missing' = {n \in 1..Len(posts[i].images) : posts[i].images[n] \notin present}
    /\ j' = 1 /\ k' = 1 /\ photo_ids' = <<>> /\ upload_log' = <<>>
    /\ pc' = post_entry(image_paths')
    /\ UNCHANGED <<stage, exit_code, env_vars, images_dir, registry_vars, loader_vars,
                   i, total_success, total_failed, pub_log, interrupted, conn_log>>
    /\ NoCall

\* post(): one turn of the upload loop, upload_photo(image_paths[k]).
UploadPhoto ==
    /\ stage = "Publishing" /\ exit_code = -1 /\ pc = "upload"
    /\ \/ \* the file is gone: None, without a request
          /\ upload_log' = Append(upload_log, [path |-> image_paths[k],
                                               requested |-> FALSE, photo_id |-> None])
          /\ response' = NoResponse
          /\ UNCHANGED <<photo_ids, interrupted, exit_code>>
          /\ k' = k + 1
          /\ pc' = IF k < Len(image_paths) THEN "upload" ELSE "feed"
       \/ \E r \in UploadOutcomes :
            LET photo_id == IF r.exc # "" THEN None ELSE upload_photo(r)
            IN /\ response' = r
               /\ upload_log' = Append(upload_log, [path |-> image_paths[k],
                                                    requested |-> TRUE,
                                                    photo_id |-> photo_id])
               /\ IF r.exc # "" /\ ~except_Exception(r.exc)
                  THEN Propagate(r.exc) /\ UNCHANGED <<photo_ids, k, pc>>
                  ELSE /\ photo_ids' = collect(photo_ids, photo_id)
                       /\ k' = k + 1
                       /\ pc' = IF k < Len(image_paths) THEN "upload" ELSE "feed"
                       /\ interrupted' = (interrupted \/ r.exc = "KeyboardInterrupt")
                       /\ UNCHANGED exit_code
    /\ NoFeed
    /\ UNCHANGED <<stage, env_vars, images_dir, registry_vars, loader_vars, i, j,
                   image_paths, total_success, total_failed, pub_log, missing, conn_log>>

\* post() and main(): the feed request, its result, the counters.
PostToFeed ==
    /\ stage = "Publishing" /\ exit_code = -1 /\ pc = "feed"
    /\ \E r \in FeedOutcomes :
        LET success == r.exc = "" /\ post_success(r)
        IN /\ response' = r
           /\ pub_log' = Append(pub_log, <<i, j>>)
           /\ request' = feed_request(posts[i].text, photo_ids)
           /\ IF r.exc # "" /\ ~except_Exception(r.exc)
              THEN Propagate(r.exc) /\ UNCHANGED <<total_success, total_failed, pc>>
              ELSE /\ total_success' = IF success THEN total_success + 1 ELSE total_success
                   /\ total_failed' = IF success THEN total_failed ELSE total_failed + 1
                   /\ pc' = "sleep"
                   /\ interrupted' = (interrupted \/ r.exc = "KeyboardInterrupt")
                   /\ UNCHANGED exit_code
    /\ UNCHANGED <<stage, env_vars, images_dir, registry_vars, loader_vars, i, j, k,
                   image_paths, photo_ids, upload_log, missing, conn_log>>

\* main(): time.sleep(2), then the next target, the next post, or the summary.
Sleep ==
    /\ stage = "Publishing" /\ exit_code = -1 /\ pc = "sleep"
    /\ IF j < Len(valid_pages)
       THEN /\ j' = j + 1 /\ k' = 1 /\ photo_ids' = <<>> /\ upload_log' = <<>>
            /\ pc' = post_entry(image_paths)
            /\ UNCHANGED <<stage, i>>
       ELSE IF i < Len(posts)
       THEN /\ i' = i + 1 /\ pc' = "prepare"
            /\ UNCHANGED <<stage, j, k, photo_ids, upload_log>>
       ELSE /\ stage' = "Summarizing" /\ pc' = "-"
            /\ UNCHANGED <<i, j, k, photo_ids, upload_log>>
    /\ NoCall
    /\ UNCHANGED <<exit_code, env_vars, images_dir, registry_vars, loader_vars,
                   image_paths, total_success, total_failed, pub_log, missing,
                   interrupted, conn_log>>

\* main(): the summary and the exit code.
Summarize ==
    /\ stage = "Summarizing" /\ exit_code = -1
    /\ stage' = "Done"
    /\ Exit(summary_exit_code(total_failed))
    /\ UNCHANGED <<pc, env_vars, images_dir, registry_vars, loader_vars, publish_vars,
                   interrupted, conn_log>>
    /\ NoCall

\* The user's interrupt at a statement of main() itself, where no handler but
\* that of the __main__ block encloses it.
Interrupt ==
    /\ exit_code = -1
    /\ Propagate("KeyboardInterrupt")
    /\ NoCall
    /\ UNCHANGED <<stage, pc, env_vars, images_dir, registry_vars, loader_vars,
                   publish_vars, conn_log>>

\* The steps of the program itself.
Run ==
    \/ ValidateDirs
    \/ LoadRegistry
    \/ TestConnection
    \/ ConnectivityChecked
    \/ GetPostFiles
    \/ LoadPost
    \/ PostsLoaded
    \/ PreparePaths
    \/ UploadPhoto
    \/ PostToFeed
    \/ Sleep
    \/ Summarize

Next == Run \/ Interrupt

Spec == Init /\ [][Next]_vars

\* The registry parser alone.
NextRegistry == LoadRegistry

SpecRegistry == InitRegistry /\ [][NextRegistry]_vars

\* The process is scheduled until it exits: every call returns or times out.
FairSpec == Spec /\ WF_vars(Run)

\* ------------------------------------------------------------ the properties

\* How often x occurs in the sequence log.
Count(log, x) == Cardinality({n \in 1..Len(log) : log[n] = x})

\* The pairs <<post, target>> of the run.
Pairs == (1..Len(posts)) \X (1..Len(valid_pages))

Exited == exit_code # -1

\* The network requests made so far.
NetSent == <<conn_log, upload_log, pub_log>>

\* C1: a run that gets through Summarizing exits with 1 when total_failed > 0
\* and with 0 otherwise.
C1_ExitCodeIffFailed ==
    stage = "Done" =>
        /\ exit_code \in {0, 1}
        /\ (exit_code # 0) <=> (total_failed > 0)

C1_Witness ==
    stage = "Done" /\ total_failed > 0 /\ total_success > 0 /\ exit_code = 1

C3_EachCallOnce ==
    /\ \A n \in 1..Len(pages) :
        /\ Count(conn_log, n) <= 1
        /\ n <= checked => Count(conn_log, n) = 1
    /\ \A n \in 1..Len(conn_log) : conn_log[n] \in 1..Len(pages)
    /\ \A n \in 1..Len(pub_log) : pub_log[n] \in Pairs /\ Count(pub_log, pub_log[n]) = 1
    /\ stage \in {"Summarizing", "Done"} => \A pair \in Pairs : Count(pub_log, pair) = 1
    /\ Len(upload_log) <= Len(image_paths)
    /\ \A n \in 1..Len(upload_log) : upload_log[n].path = image_paths[n]

C3_Witness ==
    /\ stage = "Done"
    /\ Len(pages) = 2 /\ Len(valid_pages) = 1 /\ Len(posts) = 2
    /\ total_failed = 2
    /\ Len(upload_log) = 2 /\ upload_log[1].requested /\ upload_log[1].photo_id = None

\* The stage that follows each stage.
Successor(st) ==
    CASE st = "ValidatingDirs" -> "LoadingRegistry"
      [] st = "LoadingRegistry" -> "CheckingConnectivity"
      [] st = "CheckingConnectivity" -> "LoadingPosts"
      [] st = "LoadingPosts" -> "Publishing"
      [] st = "Publishing" -> "Summarizing"
      [] st = "Summarizing" -> "Done"
      [] OTHER -> "Done"

\* A fatal precondition holds at the stage that tests it.
FatalPrecondition ==
    \/ stage = "ValidatingDirs" /\ ~posts_dir
    \/ stage = "LoadingRegistry" /\ load_facebook_pages(config, environ) = <<>>
    \/ stage = "CheckingConnectivity" /\ checked = Len(pages) /\ valid_pages = <<>>
    \/ stage = "LoadingPosts" /\ pc = "load" /\ loaded = Len(post_files) /\ posts = <<>>

\* C4: the stages follow one another in the order of the run; a run whose fatal
\* precondition holds goes no further than the stage that tests it and exits
\* there with code 1 (0 when the user interrupts first); and no upload or feed
\* request is made before Publishing, hence none in such a run.
C4_StageOrderAndFatal ==
    /\ [][stage' # stage => stage' = Successor(stage)]_vars
    /\ [][FatalPrecondition /\ ~Exited =>
            /\ stage' = stage
            /\ exit_code' = IF interrupted' THEN 0 ELSE 1]_vars
    /\ [](stage \notin {"Publishing", "Summarizing", "Done"} =>
            /\ upload_log = <<>> /\ pub_log = <<>> /\ request = NoPublish
            /\ (Exited /\ ~interrupted => exit_code = 1))
    /\ [](stage \in {"Publishing", "Summarizing", "Done"} =>
            /\ posts_dir /\ pages # <<>> /\ valid_pages # <<>> /\ posts # <<>>)

C4_Witness ==
    /\ stage = "CheckingConnectivity" /\ exit_code = 1 /\ ~interrupted
    /\ Len(pages) = 2 /\ checked = 2 /\ valid_pages = <<>>

\* A metadata read that ended in a transport error, a non-success status or a
\* body carrying an error object.
CheckFailed(r) == r.exc # "" \/ r.status # 200 \/ r.kind = "error"

\* C5 (as claimed): the target whose metadata read ended in a transport error,
\* a non-success status or a response carrying an error object is not in
\* valid_pages, and feed requests go only to targets of valid_pages.
C5_FailedCheckExcludes ==
    /\ (stage = "CheckingConnectivity" /\ conn_log # <<>> /\ CheckFailed(response))
           => \A n \in 1..Len(valid_pages) : valid_pages[n] # conn_log[Len(conn_log)]
    /\ \A n \in 1..Len(pub_log) : pub_log[n][2] \in 1..Len(valid_pages)

\* C6 (as claimed): every target load_facebook_pages returns has a non-empty
\* identifier and a non-empty credential.
C6_TargetsNonEmpty ==
    \A n \in 1..Len(pages) : pages[n].page_id # <<>> /\ pages[n].token # <<>>

\* The media identifiers the uploads of the current pair returned, in order.
UploadedIds ==
    LET got == SelectSeq(upload_log, LAMBDA u : u.photo_id # None)
    IN [n \in 1..Len(got) |-> got[n].photo_id]

\* C7: when the feed request of a pair is made, upload_photo has been called for
\* every image path, in order; the request is the one with media exactly when
\* some upload returned an identifier; and its media list holds the returned
\* identifiers, one entry each, in upload order.
C7_UploadsThenPublish ==
    request # NoPublish =>
        /\ pub_log # <<>> /\ pub_log[Len(pub_log)] = <<i, j>>
        /\ Len(upload_log) = Len(image_paths)
        /\ \A n \in 1..Len(upload_log) : upload_log[n].path = image_paths[n]
        /\ request.kind = IF UploadedIds # <<>> THEN "with_photos" ELSE "text_only"
        /\ request.attached_media =
              [n \in 1..Len(UploadedIds) |-> [media_fbid |-> UploadedIds[n]]]
        /\ request.message = posts[i].text

C7_Witness ==
    /\ pc = "sleep"
    /\ Len(request.attached_media) = 2
    /\ request.attached_media[1].media_fbid = "m2"
    /\ request.attached_media[2].media_fbid = "m1"

RECURSIVE Without(_, _, _)
\* The sequence refs without the entries at the positions of gone, from n on.
Without(refs, gone, n) ==
    IF n > Len(refs) THEN <<>>
    ELSE (IF n \in gone THEN <<>> ELSE <<refs[n]>>) \o Without(refs, gone, n + 1)

\* C8: the references whose file is missing are not among the post's image
\* paths and no upload request is made for them; the post is still published
\* (text-only when no path remains, without any upload call), and whether the
\* publish counts as a failure depends on the feed response alone.
C8_MissingImageDropped ==
    /\ []((stage = "Publishing" /\ pc # "prepare") =>
            /\ image_paths = Without(posts[i].images, missing, 1)
            /\ \A n \in missing : \A m \in 1..Len(upload_log) :
                  upload_log[m].path # posts[i].images[n])
    /\ []((request # NoPublish /\ image_paths = <<>>) =>
            request.kind = "text_only" /\ upload_log = <<>>)
    /\ [][(missing # {} /\ pc = "feed" /\ pc' = "sleep") =>
            /\ pub_log' = Append(pub_log, <<i, j>>)
            /\ (total_failed' = total_failed + 1) <=> (response'.kind # "id")
            /\ (total_failed' = total_failed) <=> (response'.kind = "id")]_vars
    /\ [](stage \in {"Summarizing", "Done"} =>
            \A pair \in Pairs : Count(pub_log, pair) = 1)

C8_Witness ==
    /\ pc = "sleep" /\ missing = {1} /\ image_paths = <<>>
    /\ response.kind = "id" /\ total_failed = 0 /\ total_success = 1
    /\ request.kind = "text_only"

\* C9: once a KeyboardInterrupt has been raised, during a network call or a file
\* read or between them, the process has exited with code 0 and no network
\* request follows.
C9_InterruptExitsZero ==
    /\ [](interrupted => exit_code = 0)
    /\ [][interrupted => NetSent' = NetSent]_vars

C9_Witness ==
    /\ interrupted /\ exit_code = 0
    /\ pc = "upload" /\ response.exc = "KeyboardInterrupt"
    /\ Len(upload_log) = 2

\* The publish attempts that have returned: the feed requests made, but the one
\* an interrupt cut short.
Completed ==
    Len(pub_log) - (IF pc = "feed" /\ pub_log # <<>> /\ pub_log[Len(pub_log)] = <<i, j>>
                    THEN 1 ELSE 0)

\* C10: total_success + total_failed is the number of completed publish
\* attempts; a step adds one to exactly one of the counters or leaves both; the
\* pairs are attempted post by post in file order and, within a post, target by
\* target in registry order; and at the summary the sum is posts x targets.
C10_CountersAndOrder ==
    /\ [](total_success + total_failed = Completed)
    /\ [][\/ UNCHANGED <<total_success, total_failed>>
          \/ /\ total_success' = total_success + 1 /\ total_failed' = total_failed
             /\ Len(pub_log') = Len(pub_log) + 1
          \/ /\ total_failed' = total_failed + 1 /\ total_success' = total_success
             /\ Len(pub_log') = Len(pub_log) + 1]_vars
    /\ [](\A n \in 1..Len(pub_log) :
            pub_log[n] = <<((n - 1) \div Len(valid_pages)) + 1,
                           ((n - 1) % Len(valid_pages)) + 1>>)
    /\ [](\A a, b \in 1..Len(posts) : a < b => posts[a].filename < posts[b].filename)
    /\ [](\A a, b \in 1..Len(valid_pages) : a < b => valid_pages[a] < valid_pages[b])
    /\ [](stage \in {"Summarizing", "Done"} =>
            total_success + total_failed = Len(posts) * Len(valid_pages))

C10_Witness ==
    /\ stage = "Summarizing"
    /\ Len(posts) = 2 /\ Len(valid_pages) = 2
    /\ total_success = 3 /\ total_failed = 1

====
